---- MODULE Spec2Model ----
(***************************************************************************)
(* Reading-session controller of the e-reader (components/ReaderView),     *)
(* together with the panel detection client (services/geminiService) it    *)
(* drives, the PDF page rendering and the library import of App.           *)
(* One action per event handler or asynchronous continuation; every        *)
(* handler runs to completion on the single UI thread, the state updates   *)
(* of one handler are applied as one batch, and the effects they set off   *)
(* run in the same step.                                                   *)
(***************************************************************************)
EXTENDS Integers, Sequences, FiniteSets, Bags, TLC

\* ------------------------------------------------------------------ bounds
MaxPages == 2        \* pages of the largest document of the library
MaxPending == 2      \* detection requests in flight at the same time
MaxRespLen == 2      \* elements of the longest detector response array
MaxStreak == 2       \* the count of cache answers in a row saturates here

\* --------------------------------------------------------------- documents
BookTypes == {"cbz", "epub", "pdf"}

\* A library item as the reader sees it: its type and what the backend
\* will find in the file (n images, n pdf pages, n reflow locations).
Book(t, n) == [id |-> <<t, n>>, type |-> t, n |-> n]
Books ==
  { Book("cbz", n) : n \in {0, MaxPages} } \cup { Book("pdf", MaxPages), Book("epub", MaxPages) }

NoBook == [id |-> <<"none", 0>>, type |-> "none", n |-> 0]

\* LibraryItem.totalPages as createLibraryItem stored it.
EPUB_TOTAL == 100
ItemTotalPages(b) == IF b.type = "epub" THEN EPUB_TOTAL ELSE b.n

\* Pages returned by getComicPages: one ComicPage per image of the archive,
\* in sorted order; the id of a page is the name of its file, here the
\* position of the file in that order.
ComicPagesOf(b) == [i \in 1..b.n |-> i]
PageIds == 1..MaxPages

\* ------------------------------------------------------------------ panels
Panel(x, y, w, h) == [x |-> x, y |-> y, width |-> w, height |-> h]
fallbackPanel == << Panel(0, 0, 100, 100) >>

\* ------------------------------------------------- panel detection client
\* JSON values a field of a response element can hold, by typeof.
Num(v) == [t |-> "number", v |-> v]
Str == [t |-> "string", v |-> 0]
Undef == [t |-> "undefined", v |-> 0]

\* Elements of a parsed response array.
Obj(x, y, w, h) == [tag |-> "object", x |-> x, y |-> y, width |-> w, height |-> h]
ElemA == Obj(Num(0), Num(0), Num(50), Num(50))
ElemB == Obj(Num(50), Num(0), Num(50), Num(50))
ElemMissing == Obj(Num(0), Num(0), Num(50), Undef)       \* no height field
ElemNonNumeric == Obj(Num(0), Num(0), Str, Num(50))      \* width is a string
ElemScalar == Obj(Undef, Undef, Undef, Undef)            \* a number or string: every p.f is undefined
ElemNull == [tag |-> "null", x |-> Undef, y |-> Undef, width |-> Undef, height |-> Undef]
Elems == {ElemA, ElemB, ElemMissing, ElemNonNumeric, ElemScalar, ElemNull}

Arrays == UNION { [1..k -> Elems] : k \in 0..MaxRespLen }

\* What ai.models.generateContent gives back: a rejection (rate-limited or
\* any other provider/transport error) or a response text, which is empty,
\* not JSON, JSON that is no array, or a JSON array.
Responses ==
  { [kind |-> k, arr |-> << >>] : k \in {"rateLimit", "otherError", "emptyText", "notJson", "nonArray"} }
    \cup { [kind |-> "array", arr |-> a] : a \in Arrays }

MSG_RATE == "Limite de requisicoes atingido"
MSG_FAILED == "Nao foi possivel detectar os paineis da pagina"
MSG_NOPANELS == "No panels were detected on this page"
MSG_LOAD == "Failed to load the book"
NoError == "null"

NoResponse == [kind |-> "none", arr |-> << >>]
NoResult == [ok |-> FALSE, panels |-> << >>, msg |-> NoError]

Ok(ps) == [ok |-> TRUE, panels |-> ps, msg |-> NoError]
Thrown(m) == [ok |-> FALSE, panels |-> << >>, msg |-> m]

\* typeof p.x === 'number' && ... ; reading a property of null throws.
IsValidPanel(p) ==
  /\ p.x.t = "number"
  /\ p.y.t = "number"
  /\ p.width.t = "number"
  /\ p.height.t = "number"

FilterThrows(arr) == \E i \in 1..Len(arr) : arr[i].tag = "null"

AsPanel(p) == Panel(p.x.v, p.y.v, p.width.v, p.height.v)

RECURSIVE ValidPanels(_)
ValidPanels(arr) ==
  IF arr = << >> THEN << >>
  ELSE IF IsValidPanel(Head(arr))
       THEN << AsPanel(Head(arr)) >> \o ValidPanels(Tail(arr))
       ELSE ValidPanels(Tail(arr))

\* A catch block that does not look for the rate-limit indicator.
CatchError_AlwaysGeneric(isRateLimit) == Thrown(MSG_FAILED)

\* The catch block: the rate-limit message when the serialized error
\* carries RESOURCE_EXHAUSTED or 429, the generic message otherwise.
CatchError(isRateLimit) == IF isRateLimit THEN Thrown(MSG_RATE) ELSE Thrown(MSG_FAILED)

getPanelsForPage(resp) ==
  CASE resp.kind = "rateLimit" -> CatchError(TRUE)
    [] resp.kind = "otherError" -> CatchError(FALSE)
    [] resp.kind = "emptyText" -> Ok(fallbackPanel)
    [] resp.kind = "notJson" -> CatchError(FALSE)          \* JSON.parse throws
    [] resp.kind = "nonArray" -> Ok(fallbackPanel)
    [] resp.kind = "array" ->
         IF Len(resp.arr) = 0 THEN Ok(fallbackPanel)
         ELSE IF FilterThrows(resp.arr) THEN CatchError(FALSE)   \* TypeError in the filter
         ELSE IF Len(ValidPanels(resp.arr)) > 0 THEN Ok(ValidPanels(resp.arr))
         ELSE Ok(fallbackPanel)

\* ------------------------------------------------------------------- state
VARIABLES
  mounted,                  \* App.selectedBook # null: a ReaderView is mounted
  book,                     \* the book prop of the mounted ReaderView
  isLoading,
  isPanelDetectionRunning,
  error,
  comicPages,               \* ids of the pages, in order
  pdfDoc,                   \* the open PDF document (NoBook for null)
  rendition,                \* renditionRef.current (NoBook for null)
  totalEpubPages,
  currentPageIndex,
  currentPanelIndex,
  viewMode,
  panels,
  panelsCache,              \* page id -> panel list, for the ids it has
  zoom,                     \* in units of ZOOM_STEP
  isFitToScreen,
  loads,                    \* loadBook calls suspended at an await
  detections,               \* handleDetectPanels calls suspended at an await
  requested,                \* ids of the pages sent for detection since the cache was last emptied
  cacheHits,                \* handleDetectPanels calls in a row that were answered from the cache
  response,                 \* the detector response the last settled detection got
  detected,                 \* what getPanelsForPage made of it
  lastOp,                   \* what the last handler did, where the state does not tell
  pdfRenderTask,            \* pdfRenderTask.current: NoTask, or the page whose render it was given for
  renders,                  \* pages of the renderPDFPageToCanvas calls at work on the canvas on screen
  canvas,                   \* the page drawn on the canvas on screen (0: none)
  crashed,                  \* an effect threw and React unmounted the tree
  openHandles,              \* backend objects the last mounted ReaderView opened and has not destroyed
  cleanupPdfDoc,            \* pdfDoc as the cleanup of the effect on [book] captured it
  library,                  \* App.library: ids of the items, in order
  store,                    \* ids of the records of the books object store
  imports,                  \* createLibraryItem / addBook calls of handleFileProcessing in flight
  processingCount,
  libraryTitle,             \* the title of each item of App.library
  storeTitle,               \* the title of each record of the books object store
  ops,                      \* db.deleteBook / db.updateBookTitle calls in flight
  changes,                  \* changes of the book prop since the ReaderView was mounted
  pageImage,                \* the page a detection is about: its url and natural size
  resizedDataUrl,           \* what resizeImageForGemini settled with
  request                   \* the base64Image and mimeType handed to getPanelsForPage

vars ==
  << mounted, book, isLoading, isPanelDetectionRunning, error, comicPages, pdfDoc,
     rendition, totalEpubPages, currentPageIndex, currentPanelIndex, viewMode,
     panels, panelsCache, zoom, isFitToScreen, loads, detections, requested,
     cacheHits, response, detected, lastOp, pdfRenderTask, renders, canvas, crashed,
     openHandles, cleanupPdfDoc, library, store, imports, processingCount, changes,
     pageImage, resizedDataUrl, request, libraryTitle, storeTitle, ops >>

pdfVars == << pdfRenderTask, renders, canvas, crashed >>
handleVars == << openHandles, cleanupPdfDoc >>
libVars == << library, store, imports, processingCount, libraryTitle, storeTitle, ops >>
resizeVars == << pageImage, resizedDataUrl, request >>

ZOOM_ONE == 4               \* zoom 1 is four steps of ZOOM_STEP = 0.25
MaxChanges == 1             \* changes of the book prop of one mounted ReaderView

EmptyCache == [i \in {} |-> << >>]

\* useState initial values of a freshly mounted ReaderView.
InitialState(b) ==
  /\ book = b
  /\ isLoading = TRUE
  /\ isPanelDetectionRunning = FALSE
  /\ error = NoError
  /\ comicPages = << >>
  /\ pdfDoc = NoBook
  /\ rendition = NoBook
  /\ totalEpubPages = 0
  /\ currentPageIndex = 0
  /\ currentPanelIndex = -1
  /\ viewMode = "page"
  /\ panels = << >>
  /\ panelsCache = EmptyCache
  /\ zoom = ZOOM_ONE
  /\ isFitToScreen = TRUE

NoTask == 0                 \* pdfRenderTask.current = null

\* No render, no backend object, no import yet.
InitBackends ==
  /\ lastOp = "other"
  /\ changes = 0
  /\ pdfRenderTask = NoTask
  /\ renders = {}
  /\ canvas = 0
  /\ crashed = FALSE
  /\ openHandles = {}
  /\ cleanupPdfDoc = NoBook

\* The library of a fresh store, once loadLibrary has read it.
InitLibrary ==
  /\ library = << >>
  /\ store = {}
  /\ imports = EmptyBag
  /\ processingCount = 0
  /\ libraryTitle = << >>
  /\ storeTitle = << >>
  /\ ops = EmptyBag

\* No page is being prepared for the detector.
NoUrl == [scheme |-> "none", mime |-> "", payload |-> "none", width |-> 0, height |-> 0]
NoRequest == [base64Image |-> "none", mimeType |-> "", width |-> 0, height |-> 0]

InitResize ==
  /\ pageImage = NoUrl
  /\ resizedDataUrl = NoUrl
  /\ request = NoRequest

Init ==
  /\ mounted = FALSE
  /\ InitialState(NoBook)
  /\ loads = {}
  /\ detections = EmptyBag
  /\ requested = {}
  /\ cacheHits = 0
  /\ response = NoResponse
  /\ detected = NoResult
  /\ InitBackends
  /\ InitLibrary
  /\ InitResize

\* useMemo totalPages.
totalPages ==
  IF book.type = "cbz" THEN Len(comicPages)
  ELSE IF book.type = "pdf" /\ pdfDoc # NoBook THEN pdfDoc.n
  ELSE IF book.type = "epub" THEN totalEpubPages
  ELSE ItemTotalPages(book)

\* comicPages[currentPageIndex] is defined.
HasCurrentPage == currentPageIndex >= 0 /\ currentPageIndex < Len(comicPages)
CurrentPageId == comicPages[currentPageIndex + 1]

\* renderContent mounts the element viewerRef points to only past the
\* spinner and the error message.
ViewerMounted ==
  /\ ~isLoading
  /\ error = NoError
  /\ \/ book.type = "cbz" /\ HasCurrentPage
     \/ book.type = "pdf"
     \/ book.type = "epub"

\* ---------------------------------------------------------- loading a book
\* A backend object opened for book b: a PDFDocumentProxy, an epub Book or
\* its Rendition.
Handle(kind, b) == [kind |-> kind, of |-> b.id]

\* What the cleanup of the effect on [book] leaves open: it destroys the
\* pdfDoc its closure captured and the rendition renditionRef points to.
Cleanup(hs) == hs \ { Handle("pdfDoc", cleanupPdfDoc), Handle("rendition", rendition) }

\* The synchronous head of loadBook, up to its first await.  The spinner
\* replaces the content, a canvas included; what a render in progress
\* draws on a canvas that has left the screen is seen by nobody.
LoadBookStart(b) ==
  /\ book' = b
  /\ isLoading' = TRUE
  /\ error' = NoError
  /\ comicPages' = << >>
  /\ pdfDoc' = NoBook
  /\ rendition' = NoBook
  /\ currentPageIndex' = 0
  /\ panelsCache' = EmptyCache
  /\ panels' = << >>
  /\ viewMode' = "page"
  /\ zoom' = ZOOM_ONE
  /\ isFitToScreen' = TRUE
  /\ loads' = loads \cup { [book |-> b, stage |-> "open"] }
  /\ requested' = {}
  /\ canvas' = 0
  /\ renders' = {}
  /\ lastOp' = "other"

\* App.handleSelectBook: a ReaderView is mounted for the book and its
\* effect starts loadBook.
SelectBook(b) ==
  /\ ~mounted
  /\ ~crashed
  /\ mounted' = TRUE
  /\ LoadBookStart(b)
  /\ pdfRenderTask' = NoTask
  /\ cleanupPdfDoc' = NoBook
  /\ openHandles' = {}
  /\ UNCHANGED << isPanelDetectionRunning, totalEpubPages, currentPanelIndex, detections,
                  crashed >>
  /\ cacheHits' = 0
  /\ UNCHANGED << response, detected >>
  /\ UNCHANGED << libVars, resizeVars >>
  /\ changes' = 0

\* The book prop of the mounted ReaderView changes: the effect on [book]
\* runs its cleanup and then loadBook, over the state of the previous book.
ChangeBook(b) ==
  /\ mounted
  /\ b # book
  /\ changes < MaxChanges
  /\ changes' = changes + 1
  /\ LoadBookStart(b)
  /\ openHandles' = Cleanup(openHandles)
  /\ cleanupPdfDoc' = pdfDoc
  /\ UNCHANGED << mounted, isPanelDetectionRunning, totalEpubPages, currentPanelIndex, detections,
                  pdfRenderTask, crashed >>
  /\ cacheHits' = 0
  /\ UNCHANGED << response, detected >>
  /\ UNCHANGED << libVars, resizeVars >>

\* App.handleCloseReader: the ReaderView is unmounted.  State updates of
\* continuations that are still suspended are dropped by React, so those
\* continuations leave the model with the component.
CloseReader ==
  /\ mounted
  /\ mounted' = FALSE
  /\ book' = NoBook
  /\ isLoading' = TRUE
  /\ isPanelDetectionRunning' = FALSE
  /\ error' = NoError
  /\ comicPages' = << >>
  /\ pdfDoc' = NoBook
  /\ rendition' = NoBook
  /\ totalEpubPages' = 0
  /\ currentPageIndex' = 0
  /\ currentPanelIndex' = -1
  /\ viewMode' = "page"
  /\ panels' = << >>
  /\ panelsCache' = EmptyCache
  /\ zoom' = ZOOM_ONE
  /\ isFitToScreen' = TRUE
  /\ loads' = {}
  /\ detections' = EmptyBag
  /\ requested' = {}
  /\ cacheHits' = 0
  /\ UNCHANGED << response, detected >>
  /\ lastOp' = "other"
  /\ pdfRenderTask' = NoTask
  /\ renders' = {}
  /\ canvas' = 0
  /\ openHandles' = Cleanup(openHandles)
  /\ cleanupPdfDoc' = NoBook
  /\ UNCHANGED crashed
  /\ UNCHANGED << libVars, resizeVars >>
  /\ changes' = 0

\* ------------------------------------------------------ PDF page rendering
\* The effect on [book.type, pdfDoc, currentPageIndex] runs after a step
\* that changed one of them, and acts if a document and a canvas are there.
RenderEffectRuns ==
  /\ << book'.type, pdfDoc', currentPageIndex' >> # << book.type, pdfDoc, currentPageIndex >>
  /\ book'.type = "pdf"
  /\ pdfDoc' # NoBook
  /\ ~isLoading'
  /\ error' = NoError

\* The effect, at the end of a step that leaves loads ls, detections ds
\* and handles hs.  renderPDFPageToCanvas is async, so pdfRenderTask.current
\* is given a promise; a promise has no cancel, so with a task at hand
\* pdfRenderTask.current?.cancel() throws a TypeError out of the effect.
\* React then unmounts the tree, which runs the cleanups.
RenderEffect(ls, ds, hs) ==
  IF RenderEffectRuns /\ pdfRenderTask # NoTask
  THEN /\ crashed' = TRUE
       /\ mounted' = FALSE
       /\ loads' = {}
       /\ detections' = EmptyBag
       /\ openHandles' = Cleanup(hs)
       /\ canvas' = 0
       /\ renders' = {}
       /\ UNCHANGED << pdfRenderTask, cleanupPdfDoc >>
  ELSE /\ loads' = ls
       /\ detections' = ds
       /\ openHandles' = hs
       /\ UNCHANGED << mounted, crashed, cleanupPdfDoc >>
       /\ IF RenderEffectRuns
          THEN /\ pdfRenderTask' = currentPageIndex' + 1
               /\ renders' = renders \cup { currentPageIndex' + 1 }
               /\ UNCHANGED canvas
          ELSE UNCHANGED << pdfRenderTask, renders, canvas >>

\* A renderPDFPageToCanvas call finishes: the page is on the canvas it was
\* given.
RenderDone(r) ==
  /\ r \in renders
  /\ renders' = renders \ {r}
  /\ canvas' = r
  /\ UNCHANGED << mounted, book, isLoading, isPanelDetectionRunning, error, comicPages, pdfDoc,
                  rendition, totalEpubPages, currentPageIndex, currentPanelIndex, viewMode,
                  panels, panelsCache, zoom, isFitToScreen, loads, detections, requested,
                  cacheHits, response, detected, lastOp, pdfRenderTask, crashed >>
  /\ UNCHANGED handleVars
  /\ UNCHANGED << libVars, resizeVars >>
  /\ UNCHANGED changes

\* finally { setIsLoading(false) } of loadBook.
\* getComicPages / getPDFDoc resolved.
LoadResolve(l) ==
  /\ l \in loads
  /\ l.stage = "open"
  /\ l.book.type \in {"cbz", "pdf"}
  /\ isLoading' = FALSE
  /\ IF l.book.type = "cbz"
     THEN comicPages' = ComicPagesOf(l.book) /\ UNCHANGED pdfDoc
     ELSE pdfDoc' = l.book /\ UNCHANGED comicPages
  /\ UNCHANGED << book, isPanelDetectionRunning, error, rendition, totalEpubPages,
                  currentPageIndex, currentPanelIndex, viewMode, panels, panelsCache,
                  zoom, isFitToScreen, requested >>
  /\ cacheHits' = 0
  /\ UNCHANGED << response, detected >>
  /\ lastOp' = "other"
  /\ RenderEffect(loads \ {l}, detections,
                  IF l.book.type = "pdf" THEN openHandles \cup { Handle("pdfDoc", l.book) }
                  ELSE openHandles)
  /\ UNCHANGED << libVars, resizeVars >>
  /\ UNCHANGED changes

\* epubBook.ready and locations.generate resolved: the location count is
\* stored and, if the viewer element is mounted, a rendition is created
\* and displayed (a further await); otherwise loadBook is over.
LoadEpubLocations(l) ==
  /\ l \in loads
  /\ l.stage = "open"
  /\ l.book.type = "epub"
  /\ totalEpubPages' = l.book.n
  /\ IF ViewerMounted
     THEN /\ rendition' = l.book
          /\ loads' = (loads \ {l}) \cup { [book |-> l.book, stage |-> "display"] }
          /\ openHandles' = openHandles \cup { Handle("epubBook", l.book), Handle("rendition", l.book) }
          /\ UNCHANGED isLoading
     ELSE /\ loads' = loads \ {l}
          /\ isLoading' = FALSE
          /\ openHandles' = openHandles \cup { Handle("epubBook", l.book) }
          /\ UNCHANGED rendition
  /\ UNCHANGED << mounted, book, isPanelDetectionRunning, error, comicPages, pdfDoc,
                  currentPageIndex, currentPanelIndex, viewMode, panels, panelsCache,
                  zoom, isFitToScreen, detections, requested >>
  /\ cacheHits' = 0
  /\ UNCHANGED << response, detected >>
  /\ lastOp' = "other"
  /\ UNCHANGED << pdfVars, cleanupPdfDoc >>
  /\ UNCHANGED << libVars, resizeVars >>
  /\ UNCHANGED changes

\* rendition.display() resolved.
LoadEpubDisplayed(l) ==
  /\ l \in loads
  /\ l.stage = "display"
  /\ loads' = loads \ {l}
  /\ isLoading' = FALSE
  /\ UNCHANGED << mounted, book, isPanelDetectionRunning, error, comicPages, pdfDoc, rendition,
                  totalEpubPages, currentPageIndex, currentPanelIndex, viewMode, panels,
                  panelsCache, zoom, isFitToScreen, detections, requested >>
  /\ cacheHits' = 0
  /\ UNCHANGED << response, detected >>
  /\ lastOp' = "other"
  /\ UNCHANGED << pdfVars, handleVars >>
  /\ UNCHANGED << libVars, resizeVars >>
  /\ UNCHANGED changes

\* Any await of loadBook rejected: catch, then finally.  The message
\* replaces the content, a canvas included.  An epub may fail before
\* (reading the file) or after (ready, locations) ePub() made its Book.
LoadReject(l) ==
  /\ l \in loads
  /\ loads' = loads \ {l}
  /\ error' = MSG_LOAD
  /\ isLoading' = FALSE
  /\ \E made \in (IF l.book.type = "epub" /\ l.stage = "open" THEN BOOLEAN ELSE {FALSE}) :
       openHandles' = (IF made THEN openHandles \cup { Handle("epubBook", l.book) }
                       ELSE openHandles)
  /\ UNCHANGED << mounted, book, isPanelDetectionRunning, comicPages, pdfDoc, rendition,
                  totalEpubPages, currentPageIndex, currentPanelIndex, viewMode, panels,
                  panelsCache, zoom, isFitToScreen, detections, requested >>
  /\ cacheHits' = 0
  /\ UNCHANGED << response, detected >>
  /\ lastOp' = "other"
  /\ canvas' = 0
  /\ renders' = {}
  /\ UNCHANGED << pdfRenderTask, crashed, cleanupPdfDoc >>
  /\ UNCHANGED << libVars, resizeVars >>
  /\ UNCHANGED changes

\* rendition.on('relocated'): the rendition reports a location of its book.
Relocated(loc) ==
  /\ mounted
  /\ rendition # NoBook
  /\ loc \in 0..(rendition.n - 1)
  /\ currentPageIndex' = loc
  /\ UNCHANGED << book, isLoading, isPanelDetectionRunning, error, comicPages, pdfDoc,
                  rendition, totalEpubPages, currentPanelIndex, viewMode, panels, panelsCache,
                  zoom, isFitToScreen, requested >>
  /\ cacheHits' = 0
  /\ UNCHANGED << response, detected >>
  /\ lastOp' = "other"
  /\ RenderEffect(loads, detections, openHandles)
  /\ UNCHANGED << libVars, resizeVars >>
  /\ UNCHANGED changes

\* -------------------------------------------------------------- navigation
\* For an epub the handlers also call rendition.next() / prev(); what the
\* rendition then reports arrives through Relocated.
\* goToNext whose page step leaves the panel state as it is.
goToNext_KeepsPanelState ==
  /\ mounted
  /\ IF viewMode = "panel" /\ currentPanelIndex < Len(panels) - 1
     THEN /\ currentPanelIndex' = currentPanelIndex + 1
          /\ lastOp' = "other"
          /\ UNCHANGED << currentPageIndex, panels, viewMode >>
     ELSE IF currentPageIndex < totalPages - 1
     THEN /\ currentPageIndex' = currentPageIndex + 1
          /\ lastOp' = "other"
          /\ UNCHANGED << currentPanelIndex, panels, viewMode >>
     ELSE /\ lastOp' = "navNone"
          /\ UNCHANGED << currentPageIndex, currentPanelIndex, panels, viewMode >>
  /\ UNCHANGED << book, isLoading, isPanelDetectionRunning, error, comicPages, pdfDoc,
                  rendition, totalEpubPages, panelsCache, zoom, isFitToScreen, requested >>
  /\ cacheHits' = 0
  /\ UNCHANGED << response, detected >>
  /\ RenderEffect(loads, detections, openHandles)
  /\ UNCHANGED << libVars, resizeVars >>
  /\ UNCHANGED changes

goToNext ==
  /\ mounted
  /\ IF viewMode = "panel" /\ currentPanelIndex < Len(panels) - 1
     THEN /\ currentPanelIndex' = currentPanelIndex + 1
          /\ lastOp' = "other"
          /\ UNCHANGED << currentPageIndex, panels, viewMode >>
     ELSE IF currentPageIndex < totalPages - 1
     THEN /\ currentPageIndex' = currentPageIndex + 1
          /\ panels' = << >>
          /\ currentPanelIndex' = -1
          /\ viewMode' = IF book.type # "epub" THEN "page" ELSE viewMode
          /\ lastOp' = "other"
     ELSE /\ lastOp' = "navNone"
          /\ UNCHANGED << currentPageIndex, currentPanelIndex, panels, viewMode >>
  /\ UNCHANGED << book, isLoading, isPanelDetectionRunning, error, comicPages, pdfDoc,
                  rendition, totalEpubPages, panelsCache, zoom, isFitToScreen, requested >>
  /\ cacheHits' = 0
  /\ UNCHANGED << response, detected >>
  /\ RenderEffect(loads, detections, openHandles)
  /\ UNCHANGED << libVars, resizeVars >>
  /\ UNCHANGED changes

\* goToPrev whose page step does not look at the first page.
goToPrev_Unclamped ==
  /\ mounted
  /\ IF viewMode = "panel" /\ currentPanelIndex > 0
     THEN /\ currentPanelIndex' = currentPanelIndex - 1
          /\ lastOp' = "other"
          /\ UNCHANGED << currentPageIndex, panels, viewMode >>
     ELSE /\ currentPageIndex' = currentPageIndex - 1
          /\ panels' = << >>
          /\ currentPanelIndex' = -1
          /\ viewMode' = IF book.type # "epub" THEN "page" ELSE viewMode
          /\ lastOp' = "other"
  /\ UNCHANGED << book, isLoading, isPanelDetectionRunning, error, comicPages, pdfDoc,
                  rendition, totalEpubPages, panelsCache, zoom, isFitToScreen, requested >>
  /\ cacheHits' = 0
  /\ UNCHANGED << response, detected >>
  /\ RenderEffect(loads, detections, openHandles)
  /\ UNCHANGED << libVars, resizeVars >>
  /\ UNCHANGED changes

goToPrev ==
  /\ mounted
  /\ IF viewMode = "panel" /\ currentPanelIndex > 0
     THEN /\ currentPanelIndex' = currentPanelIndex - 1
          /\ lastOp' = "other"
          /\ UNCHANGED << currentPageIndex, panels, viewMode >>
     ELSE IF currentPageIndex > 0
     THEN /\ currentPageIndex' = currentPageIndex - 1
          /\ panels' = << >>
          /\ currentPanelIndex' = -1
          /\ viewMode' = IF book.type # "epub" THEN "page" ELSE viewMode
          /\ lastOp' = "other"
     ELSE /\ lastOp' = "navNone"
          /\ UNCHANGED << currentPageIndex, currentPanelIndex, panels, viewMode >>
  /\ UNCHANGED << book, isLoading, isPanelDetectionRunning, error, comicPages, pdfDoc,
                  rendition, totalEpubPages, panelsCache, zoom, isFitToScreen, requested >>
  /\ cacheHits' = 0
  /\ UNCHANGED << response, detected >>
  /\ RenderEffect(loads, detections, openHandles)
  /\ UNCHANGED << libVars, resizeVars >>
  /\ UNCHANGED changes

\* ------------------------------------------------------------ zoom and fit
\* Zoom factors are counted in steps of ZOOM_STEP = 0.25, which binary
\* floating point adds and subtracts exactly.
ZOOM_STEP == 1
MIN_ZOOM == 1               \* 0.25
MAX_ZOOM == 20              \* 5

Min(a, b) == IF a < b THEN a ELSE b
Max(a, b) == IF a > b THEN a ELSE b

\* What the zoom and fit controls leave alone.
ViewUnchanged ==
  /\ UNCHANGED << mounted, book, isLoading, isPanelDetectionRunning, error, comicPages, pdfDoc,
                  rendition, totalEpubPages, currentPageIndex, currentPanelIndex, viewMode,
                  panels, panelsCache, loads, detections, requested, response, detected >>
  /\ cacheHits' = 0
  /\ UNCHANGED << pdfVars, handleVars >>
  /\ UNCHANGED << libVars, resizeVars >>
  /\ UNCHANGED changes

\* handleZoom without the clamp.
handleZoom_Unclamped(direction) ==
  /\ mounted
  /\ book.type # "epub"
  /\ isFitToScreen' = FALSE
  /\ zoom' = (IF direction = "in" THEN zoom + ZOOM_STEP ELSE zoom - ZOOM_STEP)
  /\ lastOp' = "other"
  /\ ViewUnchanged

\* The zoom buttons, shown for comics and PDFs.
handleZoom(direction) ==
  /\ mounted
  /\ book.type # "epub"
  /\ isFitToScreen' = FALSE
  /\ zoom' = Max(MIN_ZOOM, Min(MAX_ZOOM,
                 IF direction = "in" THEN zoom + ZOOM_STEP ELSE zoom - ZOOM_STEP))
  /\ lastOp' = "other"
  /\ ViewUnchanged

\* toggleFitToScreen that never resets the zoom.
toggleFitToScreen_NoReset ==
  /\ mounted
  /\ book.type # "epub"
  /\ isFitToScreen' = ~isFitToScreen
  /\ UNCHANGED zoom
  /\ lastOp' = (IF isFitToScreen THEN "fitOff" ELSE "other")
  /\ ViewUnchanged

\* The fit button: flips the flag and, if fit was off, sets the zoom to 1.
toggleFitToScreen ==
  /\ mounted
  /\ book.type # "epub"
  /\ isFitToScreen' = ~isFitToScreen
  /\ zoom' = (IF ~isFitToScreen THEN ZOOM_ONE ELSE zoom)
  /\ lastOp' = (IF isFitToScreen THEN "fitOff" ELSE "other")
  /\ ViewUnchanged

\* A click on the zoom label: setZoom(1).
ZoomLabelClick ==
  /\ mounted
  /\ book.type # "epub"
  /\ zoom' = ZOOM_ONE
  /\ UNCHANGED isFitToScreen
  /\ lastOp' = "other"
  /\ ViewUnchanged

\* --------------------------------------------------------- panel detection
CacheHas(id) == id \in DOMAIN panelsCache

CachePut(cache, id, ps) ==
  [i \in DOMAIN cache \cup {id} |-> IF i = id THEN ps ELSE cache[i]]

\* handleDetectPanels without the cache lookup: every call on a page sends
\* a request.
handleDetectPanels_NoCacheLookup ==
  IF book.type # "cbz" \/ Len(comicPages) = 0 \/ ~HasCurrentPage
  THEN /\ cacheHits' = 0
       /\ UNCHANGED << isPanelDetectionRunning, error, currentPanelIndex, viewMode, panels,
                       detections, requested >>
  ELSE /\ BagCardinality(detections) < MaxPending
       /\ cacheHits' = 0
       /\ isPanelDetectionRunning' = TRUE
       /\ error' = NoError
       /\ detections' = detections (+) SetToBag({ [doc |-> book.id, page |-> CurrentPageId] })
       /\ requested' = requested \cup {CurrentPageId}
       /\ UNCHANGED << currentPanelIndex, viewMode, panels >>

\* handleDetectPanels up to its first await.  It returns at once without
\* a comic page to work on; a cached page is shown from the cache; else
\* the page as captured here is sent for detection.
handleDetectPanels ==
  IF book.type # "cbz" \/ Len(comicPages) = 0 \/ ~HasCurrentPage
  THEN /\ cacheHits' = 0
       /\ UNCHANGED << isPanelDetectionRunning, error, currentPanelIndex, viewMode, panels,
                       detections, requested >>
  ELSE IF CacheHas(CurrentPageId)
  THEN /\ panels' = panelsCache[CurrentPageId]
       /\ viewMode' = "panel"
       /\ currentPanelIndex' = 0
       /\ cacheHits' = (IF cacheHits < MaxStreak THEN cacheHits + 1 ELSE cacheHits)
       /\ UNCHANGED << isPanelDetectionRunning, error, detections, requested >>
  ELSE /\ BagCardinality(detections) < MaxPending
       /\ cacheHits' = 0
       /\ isPanelDetectionRunning' = TRUE
       /\ error' = NoError
       /\ detections' = detections (+) SetToBag({ [doc |-> book.id, page |-> CurrentPageId] })
       /\ requested' = requested \cup {CurrentPageId}
       /\ UNCHANGED << currentPanelIndex, viewMode, panels >>

\* The detect button; it is disabled while a detection is running.
DetectButton ==
  /\ mounted
  /\ book.type = "cbz"
  /\ ~isPanelDetectionRunning
  /\ handleDetectPanels
  /\ UNCHANGED << mounted, book, isLoading, comicPages, pdfDoc, rendition, totalEpubPages,
                  currentPageIndex, panelsCache, zoom, isFitToScreen, loads >>
  /\ UNCHANGED << response, detected >>
  /\ lastOp' = "other"
  /\ UNCHANGED << pdfVars, handleVars >>
  /\ UNCHANGED << libVars, resizeVars >>
  /\ UNCHANGED changes

\* The page-view button.
PageViewButton ==
  /\ mounted
  /\ book.type = "cbz"
  /\ viewMode' = "page"
  /\ currentPanelIndex' = -1
  /\ UNCHANGED << mounted, book, isLoading, isPanelDetectionRunning, error, comicPages, pdfDoc,
                  rendition, totalEpubPages, currentPageIndex, panels, panelsCache, zoom,
                  isFitToScreen, loads, detections, requested >>
  /\ cacheHits' = 0
  /\ UNCHANGED << response, detected >>
  /\ lastOp' = "other"
  /\ UNCHANGED << pdfVars, handleVars >>
  /\ UNCHANGED << libVars, resizeVars >>
  /\ UNCHANGED changes

\* The panel-view button: shows the panels at hand, detects if there are none.
PanelViewButton ==
  /\ mounted
  /\ book.type = "cbz"
  /\ IF Len(panels) > 0
     THEN /\ viewMode' = "panel"
          /\ currentPanelIndex' = 0
          /\ cacheHits' = 0
          /\ UNCHANGED << isPanelDetectionRunning, error, panels, detections, requested >>
     ELSE handleDetectPanels
  /\ UNCHANGED << mounted, book, isLoading, comicPages, pdfDoc, rendition, totalEpubPages,
                  currentPageIndex, panelsCache, zoom, isFitToScreen, loads >>
  /\ UNCHANGED << response, detected >>
  /\ lastOp' = "other"
  /\ UNCHANGED << pdfVars, handleVars >>
  /\ UNCHANGED << libVars, resizeVars >>
  /\ UNCHANGED changes

\* What the awaits of handleDetectPanels come to: resizeImageForGemini
\* rejects, or getPanelsForPage answers the response of the detector.
MSG_DEFAULT == "Could not detect panels for this page"

\* The detector responses a reading session is run against.
SessionResponses ==
  { [kind |-> k, arr |-> << >>] : k \in {"rateLimit", "otherError"} }
    \cup { [kind |-> "array", arr |-> a] : a \in { << >>, << ElemA, ElemB >>, << ElemNull >> } }

DetectionOutcomes ==
  { Thrown(MSG_DEFAULT) } \cup { getPanelsForPage(r) : r \in SessionResponses }

\* The continuation of handleDetectPanels for request d, whose awaits came
\* to outcome o:
\* the try body after the awaits, catch and finally.
Settle(d, o) ==
  /\ BagIn(d, detections)
  /\ detections' = detections (-) SetToBag({d})
  /\ isPanelDetectionRunning' = FALSE
  /\ IF o.ok /\ Len(o.panels) > 0
     THEN /\ panels' = o.panels
          /\ panelsCache' = CachePut(panelsCache, d.page, o.panels)
          /\ viewMode' = "panel"
          /\ currentPanelIndex' = 0
          /\ UNCHANGED error
     ELSE /\ error' = (IF o.ok THEN MSG_NOPANELS ELSE o.msg)
          /\ viewMode' = "page"
          /\ UNCHANGED << panels, panelsCache, currentPanelIndex >>
  /\ UNCHANGED << mounted, book, isLoading, comicPages, pdfDoc, rendition, totalEpubPages,
                  currentPageIndex, zoom, isFitToScreen, loads, requested >>
  /\ cacheHits' = 0
  /\ lastOp' = "other"
  /\ UNCHANGED << pdfVars, handleVars >>
  /\ UNCHANGED << libVars, resizeVars >>
  /\ UNCHANGED changes

\* A detection of the session settles with one of the session's outcomes.
DetectionSettled(d, o) ==
  /\ o \in DetectionOutcomes
  /\ Settle(d, o)
  /\ UNCHANGED << response, detected >>

\* ------------------------------------------------------ the reader at large
\* Every way the ReaderView can be driven, a change of its book prop
\* included, at zoom 1 (the zoom controls are in NextView).
Next ==
  \/ \E b \in Books : SelectBook(b)
  \/ \E b \in Books : ChangeBook(b)
  \/ CloseReader
  \/ \E l \in loads : LoadResolve(l)
  \/ \E l \in loads : LoadEpubLocations(l)
  \/ \E l \in loads : LoadEpubDisplayed(l)
  \/ \E l \in loads : LoadReject(l)
  \/ \E loc \in 0..MaxPages : Relocated(loc)
  \/ goToNext
  \/ goToPrev
  \/ DetectButton
  \/ PageViewButton
  \/ PanelViewButton
  \/ \E d \in BagToSet(detections), o \in DetectionOutcomes : DetectionSettled(d, o)
  \/ \E r \in renders : RenderDone(r)

Spec == Init /\ [][Next]_vars

\* ------------------------------------------------ the reader inside App
\* App mounts a ReaderView when a book is selected and unmounts it when the
\* reader is closed; the library is not on screen while a reader is, so
\* the book prop of a mounted ReaderView never changes there.  Without a
\* second load to end the spinner, viewerRef is still null when loadBook
\* reaches it, so no rendition is created or displayed.
NextSession ==
  \/ \E b \in Books : SelectBook(b)
  \/ CloseReader
  \/ \E l \in loads : LoadResolve(l)
  \/ \E l \in loads : LoadEpubLocations(l)
  \/ \E l \in loads : LoadReject(l)
  \/ goToNext
  \/ goToPrev
  \/ DetectButton
  \/ PageViewButton
  \/ PanelViewButton
  \/ \E d \in BagToSet(detections), o \in DetectionOutcomes : DetectionSettled(d, o)
  \/ \E r \in renders : RenderDone(r)

SpecSession == Init /\ [][NextSession]_vars

\* -------------------------------------------------- viewing without panels
\* A reader in App that is paged through, zoomed and fitted.
NextView ==
  \/ \E b \in Books : SelectBook(b)
  \/ CloseReader
  \/ \E l \in loads : LoadResolve(l)
  \/ \E l \in loads : LoadEpubLocations(l)
  \/ \E l \in loads : LoadReject(l)
  \/ goToNext
  \/ goToPrev
  \/ \E direction \in {"in", "out"} : handleZoom(direction)
  \/ toggleFitToScreen
  \/ ZoomLabelClick
  \/ \E r \in renders : RenderDone(r)

SpecView == Init /\ [][NextView]_vars

\* ------------------------------------- detection against every response
\* A comic of MaxPages pages is open and loaded; the detector may answer
\* any response of Responses.
LoadedComic ==
  /\ mounted = TRUE
  /\ book = Book("cbz", MaxPages)
  /\ isLoading = FALSE
  /\ isPanelDetectionRunning = FALSE
  /\ error = NoError
  /\ comicPages = ComicPagesOf(Book("cbz", MaxPages))
  /\ pdfDoc = NoBook
  /\ rendition = NoBook
  /\ totalEpubPages = 0
  /\ currentPageIndex = 0
  /\ currentPanelIndex = -1
  /\ viewMode = "page"
  /\ panels = << >>
  /\ panelsCache = EmptyCache
  /\ zoom = ZOOM_ONE
  /\ isFitToScreen = TRUE
  /\ loads = {}
  /\ detections = EmptyBag
  /\ requested = {}
  /\ cacheHits = 0
  /\ response = NoResponse
  /\ detected = NoResult
  /\ InitBackends
  /\ InitLibrary

InitDetect == LoadedComic /\ InitResize

\* The detector answers request d with response r.
DetectionAnswered(d, r) ==
  /\ r \in Responses
  /\ Settle(d, getPanelsForPage(r))
  /\ response' = r
  /\ detected' = getPanelsForPage(r)

\* resizeImageForGemini rejects: with the error event of the image, which
\* has no message, or with the error of a canvas without a 2d context.
\* No request is sent.
MSG_CANVAS == "Could not get canvas context for resizing"
ResizeFailures == { Thrown(MSG_DEFAULT), Thrown(MSG_CANVAS) }

ResizeRejected(d, o) ==
  /\ o \in ResizeFailures
  /\ Settle(d, o)
  /\ response' = NoResponse
  /\ detected' = NoResult

NextDetect ==
  \/ DetectButton
  \/ PageViewButton
  \/ PanelViewButton
  \/ \E d \in BagToSet(detections), r \in Responses : DetectionAnswered(d, r)
  \/ \E d \in BagToSet(detections), o \in ResizeFailures : ResizeRejected(d, o)

SpecDetect == InitDetect /\ [][NextDetect]_vars

\* The first page of the same comic, with the detect button only: the
\* button is disabled while a detection is running, so detections come
\* one at a time.
NextDetectButton ==
  \/ DetectButton
  \/ PageViewButton
  \/ \E d \in BagToSet(detections), r \in Responses : DetectionAnswered(d, r)
  \/ \E d \in BagToSet(detections), o \in ResizeFailures : ResizeRejected(d, o)

SpecDetectButton == InitDetect /\ [][NextDetectButton]_vars

\* ------------------------------------------------------------- the library
MaxFiles == 2               \* distinct files (name and size) the user can pick
MaxBatch == 2               \* files of one selection
MaxImports == 3             \* imports in flight, and the most processingCount may show

\* A file is known by the id createLibraryItem gives it: name and size.
Files == 1..MaxFiles
MaxTitles == 1              \* titles a user may type
MaxOps == 3                 \* imports, deletes and renames in flight on the shelf
FILE_NAME == 0              \* the title createLibraryItem makes of the file name
Titles == 0..MaxTitles
Batches == UNION { [1..k -> Files] : k \in 1..MaxBatch }

Range(seq) == { seq[i] : i \in 1..Len(seq) }

Import(f, stage) == [file |-> f, stage |-> stage]

RECURSIVE Started(_)
\* The map callbacks of a selection, each suspended in createLibraryItem.
Started(fs) ==
  IF fs = << >> THEN EmptyBag
  ELSE SetToBag({ Import(Head(fs), "create") }) (+) Started(Tail(fs))

\* What the library handlers leave alone: the reader.
SessionUnchanged ==
  UNCHANGED << mounted, book, isLoading, isPanelDetectionRunning, error, comicPages, pdfDoc,
               rendition, totalEpubPages, currentPageIndex, currentPanelIndex, viewMode,
               panels, panelsCache, zoom, isFitToScreen, loads, detections, requested,
               cacheHits, response, detected, lastOp, pdfVars, handleVars, changes >>

ReaderUnchanged == SessionUnchanged /\ UNCHANGED resizeVars

\* The files of a selection that pass the identity check against the
\* library as the handler sees it.
filesToProcess(files) == SelectSeq(files, LAMBDA f : f \notin Range(library))

\* handleFileProcessing up to its first await.
handleFileProcessing(files) ==
  /\ ~mounted
  /\ ~crashed
  /\ files \in Batches
  /\ IF Len(filesToProcess(files)) = 0
     THEN UNCHANGED << imports, processingCount >>
     ELSE /\ BagCardinality(imports) + Len(filesToProcess(files)) <= MaxImports
          /\ processingCount + Len(filesToProcess(files)) <= MaxImports
          /\ processingCount' = processingCount + Len(filesToProcess(files))
          /\ imports' = imports (+) Started(filesToProcess(files))
  /\ UNCHANGED << library, store, libraryTitle, storeTitle, ops >>
  /\ ReaderUnchanged

\* createLibraryItem resolved, with an item or (unsupported type, broken
\* file) with null.  With an item db.addBook is called.
CreateItemDone(i, item) ==
  /\ BagIn(i, imports)
  /\ i.stage = "create"
  /\ item \in BOOLEAN
  /\ IF item
     THEN /\ imports' = (imports (-) SetToBag({i})) (+) SetToBag({ Import(i.file, "add") })
          /\ UNCHANGED processingCount
     ELSE /\ imports' = imports (-) SetToBag({i})
          /\ processingCount' = processingCount - 1
  /\ UNCHANGED << library, store, libraryTitle, storeTitle, ops >>
  /\ ReaderUnchanged

\* The add request of db.addBook settled.  With the key in the store it
\* fails, addBook rejects and the rest of the callback is not run.
AddBookSettled(i) ==
  /\ BagIn(i, imports)
  /\ i.stage = "add"
  /\ imports' = imports (-) SetToBag({i})
  /\ IF i.file \in store
     THEN UNCHANGED << library, store, processingCount, libraryTitle, storeTitle >>
     ELSE /\ store' = store \cup {i.file}
          /\ storeTitle' = (i.file :> FILE_NAME) @@ storeTitle
          /\ library' = Append(library, i.file)
          /\ libraryTitle' = (i.file :> FILE_NAME) @@ libraryTitle
          /\ processingCount' = processingCount - 1
  /\ UNCHANGED ops
  /\ ReaderUnchanged

\* The store operations and imports that have not settled.
InFlight == BagCardinality(imports) + BagCardinality(ops)

\* A delete or a rename in flight.
Op(kind, id, title) == [kind |-> kind, id |-> id, title |-> title]

\* f restricted to the keys in ids.
Restrict(f, ids) == [k \in DOMAIN f \cap ids |-> f[k]]

\* handleDeleteBook up to its await; the button is on the item's card.
handleDeleteBook(bookId) ==
  /\ ~mounted
  /\ ~crashed
  /\ bookId \in Range(library)
  /\ InFlight < MaxOps
  /\ ops' = ops (+) SetToBag({ Op("delete", bookId, FILE_NAME) })
  /\ UNCHANGED << library, store, imports, processingCount, libraryTitle, storeTitle >>
  /\ ReaderUnchanged

\* db.deleteBook resolved (deleting a missing key succeeds too) and the
\* item is filtered out of the library.
DeleteBookSettled(o) ==
  /\ BagIn(o, ops)
  /\ o.kind = "delete"
  /\ ops' = ops (-) SetToBag({o})
  /\ store' = store \ {o.id}
  /\ storeTitle' = Restrict(storeTitle, store')
  /\ library' = SelectSeq(library, LAMBDA f : f # o.id)
  /\ libraryTitle' = Restrict(libraryTitle, Range(library'))
  /\ UNCHANGED << imports, processingCount >>
  /\ ReaderUnchanged

\* BookItem.handleSave and handleSaveTitle up to its await: a title that
\* differs from the one on the card is sent to the store.
handleSaveTitle(bookId, newTitle) ==
  /\ ~mounted
  /\ ~crashed
  /\ bookId \in Range(library)
  /\ newTitle \in Titles
  /\ newTitle # libraryTitle[bookId]
  /\ InFlight < MaxOps
  /\ ops' = ops (+) SetToBag({ Op("rename", bookId, newTitle) })
  /\ UNCHANGED << library, store, imports, processingCount, libraryTitle, storeTitle >>
  /\ ReaderUnchanged

\* db.updateBookTitle that leaves the library as it was.
SaveTitleSettled_StoreOnly(o) ==
  /\ BagIn(o, ops)
  /\ o.kind = "rename"
  /\ ops' = ops (-) SetToBag({o})
  /\ IF o.id \in store
     THEN storeTitle' = [storeTitle EXCEPT ![o.id] = o.title]
     ELSE UNCHANGED storeTitle
  /\ UNCHANGED libraryTitle
  /\ UNCHANGED << library, store, imports, processingCount >>
  /\ ReaderUnchanged

\* db.updateBookTitle settled.  With the record in the store its title is
\* put and then set in the library; without it updateBookTitle rejects
\* and the rest of handleSaveTitle is not run.
SaveTitleSettled(o) ==
  /\ BagIn(o, ops)
  /\ o.kind = "rename"
  /\ ops' = ops (-) SetToBag({o})
  /\ IF o.id \in store
     THEN /\ storeTitle' = [storeTitle EXCEPT ![o.id] = o.title]
          /\ libraryTitle' = [f \in DOMAIN libraryTitle |->
                                IF f = o.id THEN o.title ELSE libraryTitle[f]]
     ELSE UNCHANGED << libraryTitle, storeTitle >>
  /\ UNCHANGED << library, store, imports, processingCount >>
  /\ ReaderUnchanged

NextLibrary ==
  \/ \E files \in Batches : handleFileProcessing(files)
  \/ \E i \in BagToSet(imports), item \in BOOLEAN : CreateItemDone(i, item)
  \/ \E i \in BagToSet(imports) : AddBookSettled(i)

SpecLibrary == Init /\ [][NextLibrary]_vars

\* ------------------------------------------------- the shelf and the store
\* The library view at large: files are imported, items deleted and
\* renamed, with at most MaxOps of these in flight.
MaxShelf == 1               \* distinct files that come to the shelf
ShelfFiles == 1..MaxShelf
ShelfBatches == UNION { [1..k -> ShelfFiles] : k \in 1..MaxBatch }

NextShelf ==
  \/ \E files \in ShelfBatches :
       /\ InFlight + Len(filesToProcess(files)) <= MaxOps
       /\ handleFileProcessing(files)
  \/ \E i \in BagToSet(imports), item \in BOOLEAN : CreateItemDone(i, item)
  \/ \E i \in BagToSet(imports) : AddBookSettled(i)
  \/ \E bookId \in ShelfFiles : handleDeleteBook(bookId)
  \/ \E o \in BagToSet(ops) : DeleteBookSettled(o)
  \/ \E bookId \in ShelfFiles, newTitle \in Titles : handleSaveTitle(bookId, newTitle)
  \/ \E o \in BagToSet(ops) : SaveTitleSettled(o)

SpecShelf == Init /\ [][NextShelf]_vars

\* ------------------------------------------------------------------ claims
\* The load of the book on screen has finished without a load error.
Ready == mounted /\ ~isLoading /\ error # MSG_LOAD

\* The request handleDetectPanels sends for page id p of the open book.
Req(p) == [doc |-> book.id, page |-> p]

\* C1: in every state of a reading session, viewMode = page holds if and
\* only if panelIndex = -1.
C1_PageModeIffNoPanel ==
  mounted => ((viewMode = "page") <=> (currentPanelIndex = -1))

\* C2: once the session is Ready, 0 <= pageIndex < pageCount, whatever the
\* backend and also for documents of 0 or 1 pages.
C2_PageIndexInRange ==
  Ready => (0 <= currentPageIndex /\ currentPageIndex < totalPages)

C4_PanelIndexIntoCurrentPageList ==
  (mounted /\ viewMode = "panel") =>
    /\ HasCurrentPage
    /\ CacheHas(CurrentPageId)
    /\ panels = panelsCache[CurrentPageId]
    /\ 0 <= currentPanelIndex
    /\ currentPanelIndex < Len(panels)

\* Some detection request of the bag settles in this step.
SomeSettles(d) == BagIn(d, detections) /\ \E o \in DetectionOutcomes : DetectionSettled(d, o)

C6_StalePageResultDiscarded ==
  [][\A d \in BagToSet(detections) :
       (SomeSettles(d) /\ d.doc = book.id /\ HasCurrentPage /\ CurrentPageId # d.page) =>
         UNCHANGED << viewMode, currentPanelIndex, panels >>]_vars

\* C7: between two cache clears at most one detection request is issued
\* for each page: no request is sent for a page already sent.
C7_OneRequestPerPage ==
  [][\A p \in PageIds :
       CopiesIn(Req(p), detections') > CopiesIn(Req(p), detections) => p \notin requested]_vars

\* The detectPanels input: the detect button, or the panel-view button
\* when no panel list is at hand.
detectPanels == DetectButton \/ (Len(panels) = 0 /\ PanelViewButton)

\* The current page has a cache entry.
CurrentPageCached == mounted /\ book.type = "cbz" /\ HasCurrentPage /\ CacheHas(CurrentPageId)

\* The state a detectPanels on a cached page leaves.
ShownFromCache ==
  /\ viewMode = "panel"
  /\ currentPanelIndex = 0
  /\ panels = panelsCache[CurrentPageId]

\* C8: with a cache entry for the current page, detectPanels issues no
\* detection request and sets viewMode = panel, panelIndex = 0 and the
\* cached list at once; called again in a row it changes nothing more.
C8_CachedDetectIsLocalAndIdempotent ==
  [][(detectPanels /\ CurrentPageCached) =>
       /\ detections' = detections
       /\ requested' = requested
       /\ isPanelDetectionRunning' = isPanelDetectionRunning
       /\ panelsCache' = panelsCache
       /\ currentPageIndex' = currentPageIndex
       /\ viewMode' = "panel"
       /\ currentPanelIndex' = 0
       /\ panels' = panelsCache[CurrentPageId]
       /\ (ShownFromCache =>
             UNCHANGED << mounted, book, isLoading, isPanelDetectionRunning, error, comicPages,
                          pdfDoc, rendition, totalEpubPages, currentPageIndex,
                          currentPanelIndex, viewMode, panels, panelsCache, zoom,
                          isFitToScreen, loads, detections, requested >>)]_vars

\* Witness of C8: detectPanels was answered from the cache twice in a row.
C8_Witness ==
  /\ cacheHits = MaxStreak
  /\ CurrentPageCached
  /\ ShownFromCache
  /\ Len(panels) > 0

\* C9: when a detection request fails, afterwards viewMode = page, the
\* failure has changed neither pageIndex nor panelIndex, an error message
\* is set, and the cache has no entry for the page of the request.
C9_FailureLeavesPageView ==
  [][\A d \in BagToSet(detections) :
       (\E o \in DetectionOutcomes : ~o.ok /\ DetectionSettled(d, o)) =>
         /\ viewMode' = "page"
         /\ currentPageIndex' = currentPageIndex
         /\ currentPanelIndex' = currentPanelIndex
         /\ error' # NoError
         /\ d.page \notin DOMAIN panelsCache']_vars

\* A detection settles in this step.
SettleStep == BagCardinality(detections') < BagCardinality(detections)

\* The degenerate responses: an empty text, JSON that is no array, an
\* empty array, an array without an element whose four fields are numbers.
Degenerate(r) ==
  \/ r.kind \in {"emptyText", "nonArray"}
  \/ r.kind = "array" /\ \A i \in 1..Len(r.arr) : ~IsValidPanel(r.arr[i])

\* C10: on a degenerate response detect returns exactly the full-page
\* panel instead of failing, and the controller caches that panel for the
\* page and enters viewMode = panel with panelIndex = 0.
C10_DegenerateResponseGivesFallback ==
  [][(SettleStep /\ Degenerate(response')) =>
       /\ detected' = Ok(fallbackPanel)
       /\ viewMode' = "panel"
       /\ currentPanelIndex' = 0
       /\ panels' = fallbackPanel
       /\ \E d \in BagToSet(detections) :
            /\ detections' = detections (-) SetToBag({d})
            /\ d.page \in DOMAIN panelsCache'
            /\ panelsCache'[d.page] = fallbackPanel]_vars

\* The response is an array with at least one element whose four fields
\* are numbers.
HasValidElement(r) ==
  r.kind = "array" /\ \E i \in 1..Len(r.arr) : IsValidPanel(r.arr[i])

\* C11: for every response array with at least one element with numeric
\* x, y, width and height, detect returns exactly those elements, in their
\* order, and does not fail, whatever the other elements are.
C11_ValidElementsKept ==
  [][(SettleStep /\ HasValidElement(response')) =>
       detected' = Ok(ValidPanels(response'.arr))]_vars

\* A detection settles in this step without a panel list.
FailedStep == SettleStep /\ ~detected'.ok

C13_PanelStepElsePageStep ==
  [][/\ (goToNext /\ viewMode = "panel") =>
          IF currentPanelIndex < Len(panels) - 1
          THEN /\ currentPanelIndex' = currentPanelIndex + 1
               /\ UNCHANGED << currentPageIndex, viewMode >>
          ELSE /\ currentPageIndex' = currentPageIndex + 1
               /\ viewMode' = "page"
               /\ currentPanelIndex' = -1
     /\ (goToPrev /\ viewMode = "panel") =>
          IF currentPanelIndex > 0
          THEN /\ currentPanelIndex' = currentPanelIndex - 1
               /\ UNCHANGED << currentPageIndex, viewMode >>
          ELSE /\ currentPageIndex' = currentPageIndex - 1
               /\ viewMode' = "page"
               /\ currentPanelIndex' = -1]_vars

\* C13, amended: in panel mode of a comic the panel steps are as claimed;
\* at the last (first) panel the input moves pageIndex by one and leaves
\* viewMode = page and panelIndex = -1 if the comic has a next (previous)
\* page, and changes none of the three on its last (first) page.
C13_PanelStepElseClampedPageStep ==
  [][/\ (goToNext /\ viewMode = "panel" /\ book.type = "cbz") =>
          IF currentPanelIndex < Len(panels) - 1
          THEN /\ currentPanelIndex' = currentPanelIndex + 1
               /\ UNCHANGED << currentPageIndex, viewMode >>
          ELSE IF currentPageIndex < totalPages - 1
          THEN /\ currentPageIndex' = currentPageIndex + 1
               /\ viewMode' = "page"
               /\ currentPanelIndex' = -1
          ELSE UNCHANGED << currentPageIndex, currentPanelIndex, viewMode >>
     /\ (goToPrev /\ viewMode = "panel" /\ book.type = "cbz") =>
          IF currentPanelIndex > 0
          THEN /\ currentPanelIndex' = currentPanelIndex - 1
               /\ UNCHANGED << currentPageIndex, viewMode >>
          ELSE IF currentPageIndex > 0
          THEN /\ currentPageIndex' = currentPageIndex - 1
               /\ viewMode' = "page"
               /\ currentPanelIndex' = -1
          ELSE UNCHANGED << currentPageIndex, currentPanelIndex, viewMode >>]_vars

\* nextPage has moved a comic to its second panel.
C13_Witness ==
  /\ mounted
  /\ book.type = "cbz"
  /\ viewMode = "panel"
  /\ currentPanelIndex = 1
  /\ Len(panels) > 1

\* C14: in page view, nextPage at pageIndex = pageCount - 1 and prevPage at
\* pageIndex = 0 leave pageIndex, panelIndex, viewMode, zoomFactor and
\* fitToContainer, the panel list and the cache unchanged.
C14_BoundaryStepChangesNothing ==
  [][((goToNext /\ viewMode = "page" /\ currentPageIndex = totalPages - 1)
        \/ (goToPrev /\ viewMode = "page" /\ currentPageIndex = 0)) =>
       UNCHANGED << currentPageIndex, currentPanelIndex, viewMode, zoom, isFitToScreen,
                    panels, panelsCache >>]_vars

\* nextPage found nothing to do on the last page of a comic, in page view
\* with a panel list at hand and in the cache.
C14_Witness ==
  /\ mounted
  /\ lastOp = "navNone"
  /\ viewMode = "page"
  /\ totalPages > 1
  /\ currentPageIndex = totalPages - 1
  /\ panels # << >>
  /\ panelsCache # EmptyCache

\* The navigation state and cache of a freshly opened document.
FreshlyOpened ==
  /\ panelsCache = EmptyCache
  /\ currentPageIndex = 0
  /\ currentPanelIndex = -1
  /\ viewMode = "page"
  /\ zoom = ZOOM_ONE
  /\ isFitToScreen = TRUE

\* A document is opened in this step: a reader is mounted for it, or the
\* book of the mounted reader changes.
OpenStep == \E b \in Books : SelectBook(b) \/ ChangeBook(b)

\* The load of the book on screen ends in this step, without a load error.
ReadyStep == mounted /\ isLoading /\ mounted' /\ ~isLoading' /\ error' # MSG_LOAD

\* C15: openDocument, from any prior state, empties the cache and sets the
\* navigation state to page 0, panelIndex -1, page view, zoom 1, fit; when
\* the session becomes Ready it is still exactly that state.
C15_OpenResetsState ==
  [][(OpenStep \/ ReadyStep) => FreshlyOpened']_vars

\* C16: once a session is closed or a different document is opened, every
\* backend handle that session opened (PDF document, EPUB book and
\* rendition) has been released.
C16_HandlesReleased ==
  /\ ~mounted => openHandles = {}
  /\ mounted => \A h \in openHandles : h.of = book.id

\* C17: on the fixed-pages backend, a render of page N in progress when
\* the user navigates to page M is cancelled or discarded: once all
\* renders have settled the canvas shows the page at pageIndex.
C17_CanvasShowsCurrentPage ==
  ( /\ mounted \/ crashed
    /\ book.type = "pdf"
    /\ pdfDoc # NoBook
    /\ ~isLoading
    /\ error = NoError
    /\ renders = {} ) => canvas = currentPageIndex + 1

\* C18: setZoom(in) sets zoomFactor to min(5, zoom + 0.25), setZoom(out)
\* sets it to max(0.25, zoom - 0.25), both set fitToContainer = false;
\* so 0.25 <= zoomFactor <= 5 in every reachable state.
C18_ZoomStepsClamped ==
  /\ [](MIN_ZOOM <= zoom /\ zoom <= MAX_ZOOM)
  /\ [][/\ handleZoom("in") => (zoom' = Min(MAX_ZOOM, zoom + ZOOM_STEP) /\ ~isFitToScreen')
        /\ handleZoom("out") => (zoom' = Max(MIN_ZOOM, zoom - ZOOM_STEP) /\ ~isFitToScreen')]_vars

\* Zooming in has reached the largest factor.
C18_Witness == mounted /\ zoom = MAX_ZOOM /\ ~isFitToScreen

\* C19: toggleFit flips fitToContainer, and in every reachable state a
\* toggleFit that turns fit off leaves zoomFactor = 1.
C19_ToggleFit ==
  [][toggleFitToScreen =>
       /\ isFitToScreen' = ~isFitToScreen
       /\ isFitToScreen => zoom' = ZOOM_ONE]_vars

\* The last input was a toggleFit that turned fit off.
C19_Witness == mounted /\ lastOp = "fitOff" /\ ~isFitToScreen /\ zoom = ZOOM_ONE

\* db.addBook is called for file f in this step.
InsertAttempted(f) ==
  CopiesIn(Import(f, "add"), imports') > CopiesIn(Import(f, "add"), imports)

\* C20: importing a file whose id is already in the library is rejected
\* by the upstream identity check, no insert into the store is attempted
\* for it and the library is unchanged; also when the same file comes
\* twice in one batch or in two batches started before the first finished.
C20_DuplicateImportRejected ==
  [][\A f \in Files :
       InsertAttempted(f) =>
         /\ f \notin Range(library)
         /\ f \notin store
         /\ ~BagIn(Import(f, "add"), imports)]_vars

\* C21: nextPage, prevPage and detectPanels change the navigation state
\* only while the session is Ready; while the document is loading or after
\* the load has failed they leave pageIndex, panelIndex and viewMode
\* unchanged, for every backend.
C21_InputsOnlyWhileReady ==
  [][(mounted /\ ~Ready /\ (goToNext \/ goToPrev \/ detectPanels)) =>
       UNCHANGED << currentPageIndex, currentPanelIndex, viewMode >>]_vars

\* C22: when opening a document fails at any step of the load, the session
\* ends in Error with a message and keeps no partial session state: no
\* pages, no page count, no backend handle, and the navigation state at
\* its initial value.
C22_FailedLoadKeepsNothing ==
  (mounted /\ error = MSG_LOAD) =>
    /\ ~isLoading
    /\ comicPages = << >>
    /\ pdfDoc = NoBook
    /\ rendition = NoBook
    /\ totalEpubPages = 0
    /\ openHandles = {}
    /\ currentPageIndex = 0
    /\ currentPanelIndex = -1
    /\ viewMode = "page"
    /\ zoom = ZOOM_ONE
    /\ isFitToScreen

\* C23: after a detection failure the session stays Ready with the current
\* page still displayed next to the error message: a detection error never
\* puts the view into the state where the message replaces the page
\* content.
C23_DetectionErrorKeepsPage ==
  [][(mounted /\ ViewerMounted /\ SettleStep /\ error' # NoError) =>
       (Ready' /\ ViewerMounted')]_vars

\* A continuation of load l ran in this step.
LoadStep(l) == l \in loads /\ l \notin loads'

MAX_GEMINI_IMAGE_DIMENSION == 1024
MaxOver == 3                \* page sides are taken up to MaxOver around the limit

\* The sides of the page images: tiny, around the limit, and multiples of it.
Sides ==
  {1} \cup ((MAX_GEMINI_IMAGE_DIMENSION - MaxOver)..(MAX_GEMINI_IMAGE_DIMENSION + MaxOver))
      \cup { 2 * MAX_GEMINI_IMAGE_DIMENSION, MaxOver * MAX_GEMINI_IMAGE_DIMENSION }

\* A url and the size of the image it denotes.  An object url
\* ("blob:<origin>/<uuid>") has neither a media type nor a payload in it.
BlobUrl(w, h) == [scheme |-> "blob", mime |-> "", payload |-> "none", width |-> w, height |-> h]

\* The url of a comic page: getComicPages makes it with URL.createObjectURL.
PageImages == { BlobUrl(w, h) : w \in Sides, h \in Sides }

\* canvas.toDataURL('image/jpeg', 0.85): "data:image/jpeg;base64,<bytes>",
\* and "data:," for a canvas without area.
toDataURL(w, h) ==
  IF w = 0 \/ h = 0
  THEN [scheme |-> "data", mime |-> "", payload |-> "empty", width |-> w, height |-> h]
  ELSE [scheme |-> "data", mime |-> "image/jpeg", payload |-> "bytes", width |-> w, height |-> h]

\* Math.round(num / den) for positive operands.
Round(num, den) == (2 * num + den) \div (2 * den)

newWidth(width, height) ==
  IF width > height
  THEN (IF width > MAX_GEMINI_IMAGE_DIMENSION THEN MAX_GEMINI_IMAGE_DIMENSION ELSE width)
  ELSE (IF height > MAX_GEMINI_IMAGE_DIMENSION
        THEN Round(width * MAX_GEMINI_IMAGE_DIMENSION, height) ELSE width)

newHeight(width, height) ==
  IF width > height
  THEN (IF width > MAX_GEMINI_IMAGE_DIMENSION
        THEN Round(height * MAX_GEMINI_IMAGE_DIMENSION, width) ELSE height)
  ELSE (IF height > MAX_GEMINI_IMAGE_DIMENSION THEN MAX_GEMINI_IMAGE_DIMENSION ELSE height)

\* The canvas is used only when a side changes.
NeedsCanvas(dataUrl) ==
  ~(newWidth(dataUrl.width, dataUrl.height) = dataUrl.width
    /\ newHeight(dataUrl.width, dataUrl.height) = dataUrl.height)

\* What resizeImageForGemini resolves with: the url it was given when no
\* side changes, the canvas's data url otherwise.
resizeImageForGemini(dataUrl) ==
  IF ~NeedsCanvas(dataUrl)
  THEN dataUrl
  ELSE toDataURL(newWidth(dataUrl.width, dataUrl.height), newHeight(dataUrl.width, dataUrl.height))

\* resizedDataUrl.split(',')[1]
Base64Of(url) == IF url.scheme = "data" THEN url.payload ELSE "undefined"

\* resizedDataUrl.match(/:(.*?);/)?.[1] || 'image/jpeg'
MimeTypeOf(url) == IF url.scheme = "data" /\ url.mime # "" THEN url.mime ELSE "image/jpeg"

Rejected == [scheme |-> "rejected", mime |-> "", payload |-> "none", width |-> 0, height |-> 0]

\* A detection is started on some page of a loaded comic.
InitPage ==
  /\ LoadedComic
  /\ pageImage \in PageImages
  /\ resizedDataUrl = NoUrl
  /\ request = NoRequest

ResizeUnchanged == SessionUnchanged /\ UNCHANGED libVars

\* img.onload of resizeImageForGemini, resolving.
ResizeResolved ==
  /\ resizedDataUrl = NoUrl
  /\ resizedDataUrl' = resizeImageForGemini(pageImage)
  /\ UNCHANGED << pageImage, request >>
  /\ ResizeUnchanged

\* The canvas has no 2d context: the promise is rejected and no request
\* is made.
ResizeNoContext ==
  /\ resizedDataUrl = NoUrl
  /\ NeedsCanvas(pageImage)
  /\ resizedDataUrl' = Rejected
  /\ UNCHANGED << pageImage, request >>
  /\ ResizeUnchanged

\* handleDetectPanels after the resize: the two arguments of
\* getPanelsForPage are cut out of the url.
SendRequest ==
  /\ resizedDataUrl \notin {NoUrl, Rejected}
  /\ request = NoRequest
  /\ request' = [base64Image |-> Base64Of(resizedDataUrl),
                 mimeType |-> MimeTypeOf(resizedDataUrl),
                 width |-> resizedDataUrl.width, height |-> resizedDataUrl.height]
  /\ UNCHANGED << pageImage, resizedDataUrl >>
  /\ ResizeUnchanged

NextResize ==
  \/ ResizeResolved
  \/ ResizeNoContext
  \/ SendRequest

SpecResize == InitPage /\ [][NextResize]_vars

\* C25: every detection request transmits the page image as base64 image
\* bytes whose width and height are both at most 1024, for every page
\* size: a page larger than 1024 in either dimension is downscaled with the
\* larger side set to 1024, and a page already within 1024x1024 is still
\* sent as real image data.
C25_RequestCarriesBoundedImage ==
  request # NoRequest =>
    /\ request.base64Image = "bytes"
    /\ request.width <= MAX_GEMINI_IMAGE_DIMENSION
    /\ request.height <= MAX_GEMINI_IMAGE_DIMENSION
    /\ (Max(pageImage.width, pageImage.height) > MAX_GEMINI_IMAGE_DIMENSION
          => Max(request.width, request.height) = MAX_GEMINI_IMAGE_DIMENSION)

\* C26: in every reachable state, fitToContainer = true implies
\* zoomFactor = 1: every action that sets fit to true also sets the zoom to
\* 1, and every action that moves the zoom away from 1 sets fit to false.
C26_FitImpliesZoomOne == isFitToScreen => zoom = ZOOM_ONE

\* The zoom has been moved away from 1, and fit is off.
C26_Witness == mounted /\ ~isFitToScreen /\ zoom = ZOOM_ONE + ZOOM_STEP

\* C27: the import processing counter always equals the number of file
\* imports still in flight, and so is back at 0 once every started import
\* has settled, whether it succeeded, was rejected as unsupported or
\* corrupt, or failed at the store insert.
C27_CounterIsImportsInFlight == processingCount = BagCardinality(imports)

\* A detection request of the open document is in flight.
DetectionInFlight == \E d \in BagToSet(detections) : d.doc = book.id

\* C28: the detection busy flag is true exactly while at least one
\* detection request of the current document is in flight; it is never
\* cleared while a request is still pending.
C28_BusyIffDetectionInFlight ==
  mounted => (isPanelDetectionRunning <=> DetectionInFlight)

\* No import, delete or rename is in flight.
LibraryQuiet == imports = EmptyBag /\ ops = EmptyBag

\* The library holds exactly the records of the store.
LibraryIsStore ==
  /\ Range(library) = store
  /\ \A i, j \in 1..Len(library) : library[i] = library[j] => i = j
  /\ libraryTitle = storeTitle

\* A store operation fails in this step.
FailedStoreOp ==
  \/ \E i \in BagToSet(imports) : i.file \in store /\ AddBookSettled(i)
  \/ \E o \in BagToSet(ops) : o.id \notin store /\ SaveTitleSettled(o)

====
